---- MODULE Spec2Model ----
(***************************************************************************)
(* A state-machine model of conv_split_miniImagenet.py: the driver         *)
(* train_task_sequence (runs, tasks, training iterations, the per-method   *)
(* replay draw and the episodic-memory update) together with the two       *)
(* episodic-memory writers it calls, update_fifo_buffer and                *)
(* update_reservior.  The writers live in utils/utils.py, which is not     *)
(* part of the sources at hand; they are modelled from sections 3 and 4 of *)
(* spec.md, everything else from the Python source.                        *)
(*                                                                         *)
(* Arrays are functions on 0..n-1 (numpy arrays) or sequences (Python      *)
(* lists of training examples).  An image is the identifier of the         *)
(* dataset example it came from, 0 being the all-zero image; a label       *)
(* vector is the set of its non-zero positions, {} being the zero vector.  *)
(* A batch of replay indices is a bag (each index with the number of times *)
(* it occurs): the order of a batch, and so np.random.shuffle of the       *)
(* indices, is not modelled.                                               *)
(***************************************************************************)
EXTENDS Integers, Sequences, FiniteSets, Bags, TLC

(***************************************************************************)
(* Program constants and the bounds of the model.                          *)
(***************************************************************************)
\* TOTAL_CLASSES is 100 in the script; the model runs a 10-class dataset.
TOTAL_CLASSES == 10
K_FOR_CROSS_VAL == 3

\* --num-tasks, --num-runs, --train-iters, --eps-mem-batch
ArgNumTasks == 5
ArgNumRuns == 2
ArgTrainIters == 3
ArgEpsMemBatch == 2
\* --mem-size ranges over 1..MaxMemSize, --batch-size over 1..MaxBatchSize
MaxMemSize == 2
MaxBatchSize == 2
\* the dataset holds MaxPerClass examples of every fourth class, one of the others
MaxPerClass == 2

MODELS ==
  {"VAN", "PI", "EWC", "MAS", "RWALK", "M-EWC", "S-GEM", "A-GEM", "FTR_EXT",
   "PNN", "ER-Reservoir", "ER-Ringbuffer", "SUBSPACE-PROJ", "ER-SUBSPACE",
   "PROJ-SUBSPACE-GP", "ER-SUBSPACE-GP"}

EpisodicMethods ==
  {"A-GEM", "ER-Ringbuffer", "ER-Reservoir", "ER-SUBSPACE", "ER-SUBSPACE-GP"}

FifoMethods == {"A-GEM", "ER-Ringbuffer", "ER-SUBSPACE", "ER-SUBSPACE-GP"}

(***************************************************************************)
(* Python and numpy primitives.                                            *)
(***************************************************************************)
Range(f) == {f[i] : i \in DOMAIN f}

Min(a, b) == IF a <= b THEN a ELSE b

Max(a, b) == IF a >= b THEN a ELSE b

\* Python's a % d for a >= 0 and d # 0: the result has the sign of d.
PyMod(a, d) ==
  IF d > 0 THEN a % d
  ELSE LET r == a % (0 - d) IN IF r = 0 THEN 0 ELSE r + d

\* Python's s[a:b] on a list of length Len(s), for b >= 0.
PySlice(s, a, b) ==
  LET n  == Len(s)
      lo == IF a < 0 THEN Max(a + n, 0) ELSE Min(a, n)
      hi == Min(b, n)
  IN  IF hi <= lo THEN << >> ELSE SubSeq(s, lo + 1, hi)

\* np.arange(lo, hi) as an array indexed from 0.
Arange(lo, hi) == [i \in 0..(hi - lo - 1) |-> lo + i]

\* np.random.shuffle(a) of an array of the k = |S| distinct elements of S:
\* every arrangement of them.
Arrangements(S, k) ==
  {a \in [0..(k - 1) -> S] : \A i, j \in 0..(k - 1) : i # j => a[i] # a[j]}

Shuffles(S) == Arrangements(S, Cardinality(S))

\* The same, as Python lists (1-indexed sequences).
ListShuffles(S) ==
  {a \in [1..Cardinality(S) -> S] : \A i, j \in 1..Cardinality(S) : i # j => a[i] # a[j]}

(***************************************************************************)
(* The dataset: datasets[0]['train'].                                      *)
(***************************************************************************)
NumExamples(c) == IF c % 4 = 0 THEN MaxPerClass ELSE 1

ExampleId(c, k) == c * MaxPerClass + k

Dataset == UNION {{ExampleId(c, k) : k \in 1..NumExamples(c)} : c \in 0..(TOTAL_CLASSES - 1)}

ClassOf(e) == (e - 1) \div MaxPerClass

\* the one-hot label vector of an example
OneHot(e) == {ClassOf(e)}

\* load_task_specific_data: the examples whose class is one of `labels`
load_task_specific_data(labels) == {e \in Dataset : ClassOf(e) \in labels}

(***************************************************************************)
(* The state of one execution of main / train_task_sequence.               *)
(***************************************************************************)
VARIABLES
  args,                    \* the parsed command line
  pc,                      \* where the driver stands
  runid, task, iters,      \* the three loop counters
  task_labels,             \* task_labels[tt][i]: the classes of task tt
  train_x, train_y,        \* the shuffled training set of the current task
  num_iters,
  offset, residual,        \* the current batch is train_x[offset:offset+residual]
  episodic_images, episodic_labels,
  count_cls,
  episodic_filled_counter,
  examples_seen_so_far,
  mem_filled_so_far,
  er_mem_indices,          \* the replay indices (mem_sample_mask under A-GEM)
  loss,
  upd,                     \* position of the memory update inside the batch
  drawn,                   \* history: the replay draw of this iteration, if any
  replay_tt,               \* history: the task whose region is replayed, or -1
  fifo_hist,               \* history: per class, the FIFO writes of this run
  offered,                 \* history: the reservoir offers of this run
  ftask,                   \* the accuracies measured for the current task
  evals,                   \* per task of the run, its ftask
  runs                     \* per run, its evals

vars ==
  <<args, pc, runid, task, iters, task_labels, train_x, train_y, num_iters,
    offset, residual, episodic_images, episodic_labels, count_cls,
    episodic_filled_counter, examples_seen_so_far, mem_filled_so_far,
    er_mem_indices, loss, upd, drawn, replay_tt, fifo_hist, offered,
    ftask, evals, runs>>

evalVars == <<ftask, evals, runs>>

loopVars == <<runid, task, iters, task_labels, train_x, train_y, num_iters>>

memVars ==
  <<episodic_images, episodic_labels, count_cls, episodic_filled_counter,
    examples_seen_so_far>>

histVars == <<fifo_hist, offered>>

NoDraw == [made |-> FALSE, filled |-> 0, k |-> 0]

(***************************************************************************)
(* main and the head of train_task_sequence.                               *)
(***************************************************************************)
\* model.num_tasks, as main sets it
model_num_tasks ==
  IF args.online_cross_val THEN K_FOR_CROSS_VAL ELSE args.num_tasks - K_FOR_CROSS_VAL

use_episodic_memory == args.imp_method \in EpisodicMethods

classes_per_task == TOTAL_CLASSES \div args.num_tasks


total_classes == classes_per_task * model_num_tasks

\* a label space of the normal runs that starts one task above class 0
class_label_offset_OneTask == classes_per_task

\* class_label_offset = K_FOR_CROSS_VAL * classes_per_task
class_label_offset == K_FOR_CROSS_VAL * classes_per_task

label_array ==
  IF args.online_cross_val
  THEN Arange(0, total_classes)
  ELSE Arange(class_label_offset, total_classes + class_label_offset)

\* a memory sized by the classes of the whole dataset
episodic_mem_size_AllClasses == args.mem_size * TOTAL_CLASSES

episodic_mem_size == args.mem_size * total_classes

ArgsRecords ==
  [imp_method : MODELS,
   train_single_epoch : BOOLEAN,
   online_cross_val : {FALSE},
   num_tasks : {ArgNumTasks},
   num_runs : 1..ArgNumRuns,
   train_iters : {ArgTrainIters},
   eps_mem_batch : {ArgEpsMemBatch},
   mem_size : 1..MaxMemSize,
   batch_size : 1..MaxBatchSize]

\* the command lines of the model: --mem-size is read by the episodic methods
\* only, and more than one run is made in single-epoch mode with the smallest
\* memory and the largest batch
ArgsSpace ==
  {a \in ArgsRecords :
     /\ a.imp_method \notin EpisodicMethods => a.mem_size = 1
     /\ a.num_runs > 1 =>
          a.train_single_epoch /\ a.mem_size = 1 /\ a.batch_size = MaxBatchSize}


Init ==
  /\ args \in ArgsSpace
  /\ pc = "run_start"
  /\ runid = 0
  /\ task = 0
  /\ iters = 0
  /\ task_labels = << >>
  /\ train_x = << >>
  /\ train_y = << >>
  /\ num_iters = 0
  /\ offset = 0
  /\ residual = 0
  /\ episodic_images = << >>
  /\ episodic_labels = << >>
  /\ count_cls = << >>
  /\ episodic_filled_counter = 0
  /\ examples_seen_so_far = 0
  /\ mem_filled_so_far = 0
  /\ er_mem_indices = EmptyBag
  /\ loss = "unset"
  /\ upd = 0
  /\ drawn = NoDraw
  /\ replay_tt = -1
  /\ fifo_hist = [c \in 0..(TOTAL_CLASSES - 1) |-> << >>]
  /\ offered = << >>
  /\ ftask = << >>
  /\ evals = << >>
  /\ runs = << >>

(***************************************************************************)
(* test_task_sequence, with TIME_MY_METHOD, MEASURE_PERF_ON_EPS_MEMORY and *)
(* MULTI_TASK off as the source sets them.  An accuracy is not computed    *)
(* here: the entry of an evaluated task tt is the token tt + 1, "the       *)
(* accuracy measured on task tt", and 0 is the zero of np.zeros.           *)
(***************************************************************************)
accuracy(tt) == tt + 1

\* a loop that stops one task early
EvalStops_AtTask(tt, t) == tt >= t

\* if not MULTI_TASK: if tt > task: return final_acc
EvalStops(tt, t) == tt > t

\* for tt, labels in enumerate(test_tasks): ... final_acc[tt] = acc
RECURSIVE EvalLoop(_, _, _, _)
EvalLoop(final_acc, tt, test_tasks, t) ==
  IF tt \notin DOMAIN test_tasks
  THEN final_acc
  ELSE IF EvalStops(tt, t)
  THEN final_acc
  ELSE EvalLoop([final_acc EXCEPT ![tt] = accuracy(tt)], tt + 1, test_tasks, t)

\* final_acc = np.zeros(model.num_tasks), then the loop over the test tasks
test_task_sequence(test_tasks, t) ==
  EvalLoop([tt \in 0..(model_num_tasks - 1) |-> 0], 0, test_tasks, t)

\* single-epoch mode snapshots the accuracies before the first 21 iterations
\* and every 50th one (--cross-validate-mode is off in this model)
Snapshot ==
  args.train_single_epoch /\ (iters <= 20 \/ (iters > 20 /\ iters % 50 = 0))

\* a memory allocated once, before the loop over the runs
RunStartImages_Kept ==
  IF runid = 0 THEN [i \in 0..(episodic_mem_size - 1) |-> 0] ELSE episodic_images

\* episodic_images = np.zeros([episodic_mem_size, ...])
RunStartImages == [i \in 0..(episodic_mem_size - 1) |-> 0]

\* episodic_labels = np.zeros([episodic_mem_size, TOTAL_CLASSES])
RunStartLabels == [i \in 0..(episodic_mem_size - 1) |-> {}]

\* count_cls = np.zeros(TOTAL_CLASSES, dtype=np.int32)
RunStartCounts == [c \in 0..(TOTAL_CLASSES - 1) |-> 0]

\* a slice that starts at the index of the task
tt_offset_Index(tt) == tt

\* tt_offset = tt*classes_per_task
tt_offset(tt) == tt * classes_per_task

\* for runid in range(args.num_runs): seeds, task labels, a fresh episodic memory
StartRun ==
  /\ pc = "run_start"
  /\ \E shuffled \in Shuffles(Range(label_array)) :
       task_labels' =
         [tt \in 0..(model_num_tasks - 1) |->
            [i \in 0..(classes_per_task - 1) |-> shuffled[tt_offset(tt) + i]]]
  /\ IF use_episodic_memory
     THEN /\ episodic_images' = RunStartImages
          /\ episodic_labels' = RunStartLabels
          /\ count_cls' = RunStartCounts
          /\ episodic_filled_counter' = 0
          /\ examples_seen_so_far' = 0
     ELSE UNCHANGED memVars
  /\ fifo_hist' = [c \in 0..(TOTAL_CLASSES - 1) |-> << >>]
  /\ offered' = << >>
  /\ task' = 0
  /\ pc' = "task_start"
  /\ evals' = << >>
  /\ UNCHANGED <<args, runid, iters, train_x, train_y, num_iters, offset, residual,
                 mem_filled_so_far, er_mem_indices, loss, upd, drawn, replay_tt,
                 ftask, runs>>

\* a floor in place of the ceiling
NumIters_Floor(n) ==
  IF args.train_single_epoch
  THEN n \div args.batch_size
  ELSE args.train_iters

\* the ceiling of num_train_examples / batch_size, or --train-iters
NumIters(num_train_examples) ==
  IF args.train_single_epoch
  THEN (num_train_examples + args.batch_size - 1) \div args.batch_size
  ELSE args.train_iters

\* for task in range(len(task_labels)): load and shuffle the task's training set
StartTask ==
  /\ pc = "task_start"
  /\ \E shuffled \in ListShuffles(load_task_specific_data(Range(task_labels[task]))) :
       /\ train_x' = shuffled
       /\ train_y' = [i \in 1..Len(shuffled) |-> OneHot(shuffled[i])]
       /\ num_iters' = NumIters(Len(shuffled))
       /\ pc' = IF NumIters(Len(shuffled)) > 0 THEN "train" ELSE "task_end"
  /\ iters' = 0
  /\ ftask' = << >>
  /\ UNCHANGED <<args, runid, task, task_labels, offset, residual, memVars,
                 mem_filled_so_far, er_mem_indices, loss, upd, drawn, replay_tt,
                 histVars, evals, runs>>

\* runs.append(np.array(evals)); the next run, or return runs, task_labels_dataset
EndRun ==
  /\ pc = "run_end"
  /\ IF runid + 1 < args.num_runs
     THEN runid' = runid + 1 /\ pc' = "run_start"
     ELSE runid' = runid /\ pc' = "returned"
  /\ runs' = Append(runs, evals)
  /\ UNCHANGED <<args, task, iters, task_labels, train_x, train_y, num_iters, offset,
                 residual, memVars, mem_filled_so_far, er_mem_indices, loss, upd,
                 drawn, replay_tt, histVars, ftask, evals>>

(***************************************************************************)
(* One training iteration: the batch, the replay draw, the training step.  *)
(***************************************************************************)
num_train_examples == Len(train_x)

\* offset = (iters * batch_size) % (num_train_examples - batch_size) divides by zero
ZeroDivision ==
  /\ ~args.train_single_epoch
  /\ num_train_examples - args.batch_size = 0

BatchOffset ==
  IF args.train_single_epoch
  THEN iters * args.batch_size
  ELSE PyMod(iters * args.batch_size, num_train_examples - args.batch_size)

BatchResidual ==
  IF args.train_single_epoch
  THEN IF BatchOffset + args.batch_size <= num_train_examples
       THEN args.batch_size
       ELSE num_train_examples - BatchOffset
  ELSE args.batch_size

\* train_x[offset:offset+residual] and train_y[offset:offset+residual]
BatchX == PySlice(train_x, offset, offset + residual)

\* the labels of the task passed whole, not the slice of the batch
BatchY_Unsliced == train_y

BatchY == PySlice(train_y, offset, offset + residual)

LossValues == {"finite", "inf", "nan"}

\* np.arange(lo, hi) as a batch of indices
IndexRange(lo, hi) == SetToBag(lo..(hi - 1))

\* np.random.choice(n, k, replace=False): k distinct indices below n
Choice(n, k) == {SetToBag(S) : S \in {T \in SUBSET (0..(n - 1)) : Cardinality(T) = k}}

\* A-GEM: mem_sample_mask
AgemDraw(filled, k) ==
  IF filled <= k
  THEN {IndexRange(0, filled)}
  ELSE Choice(filled, k)

\* ER-Reservoir: er_mem_indices
ReservoirDraw(filled, k) ==
  IF filled < k
  THEN {IndexRange(0, filled)}
  ELSE Choice(filled, k)

\* np.random.choice(n, k, replace=True): k indices below n, repeats allowed
ChoiceWithReplacement(n, k) ==
  {[i \in Range(f) |-> Cardinality({j \in 1..k : f[j] = i})] :
     f \in [1..k -> 0..(n - 1)]}

\* a draw that may take a slot twice
RingbufferDraw_WithReplacement(filled, k) ==
  IF filled <= k
  THEN {IndexRange(0, filled)}
  ELSE ChoiceWithReplacement(filled, k)

\* ER-Ringbuffer and ER-SUBSPACE-GP: er_mem_indices
RingbufferDraw(filled, k) ==
  IF filled <= k
  THEN {IndexRange(0, filled)}
  ELSE Choice(filled, k)

\* a memory taken to be full from the start
ReservoirFilled_Capacity == episodic_mem_size

ReservoirFilled ==
  IF examples_seen_so_far < episodic_mem_size
  THEN examples_seen_so_far
  ELSE episodic_mem_size

\* a filled count that takes in the region of the task being trained
RingbufferFilled_WithCurrent ==
  Min(episodic_filled_counter + args.mem_size * classes_per_task, episodic_mem_size)

RingbufferFilled ==
  IF episodic_filled_counter <= episodic_mem_size
  THEN episodic_filled_counter
  ELSE episodic_mem_size

\* a region of the slots of one class only
RegionIndices_OneClass(tt) ==
  IndexRange(tt * args.mem_size * classes_per_task,
             tt * args.mem_size * classes_per_task + args.mem_size)

\* np.arange(mem_offset, mem_offset + args.mem_size * classes_per_task)
RegionIndices(tt) ==
  IndexRange(tt * args.mem_size * classes_per_task,
             tt * args.mem_size * classes_per_task + args.mem_size * classes_per_task)

\* what every method branch shares: the batch of this iteration is fixed
TrainHead ==
  /\ pc = "train"
  /\ ~ZeroDivision
  /\ offset' = BatchOffset
  /\ residual' = BatchResidual
  /\ upd' = 0
  /\ ftask' = IF Snapshot
              THEN Append(ftask, test_task_sequence(task_labels, task))
              ELSE ftask
  /\ UNCHANGED <<args, loopVars, memVars, histVars, evals, runs>>

\* an iteration that goes to the loss test without the update of the memory
ToUpdate_Skip == pc' = "check"

\* the episodic methods go on to put the batch into the memory
ToUpdate ==
  pc' = IF PySlice(train_x, BatchOffset, BatchOffset + BatchResidual) = << >>
        THEN "check"
        ELSE "update"

RaiseZeroDivision ==
  /\ pc = "train"
  /\ ZeroDivision
  /\ pc' = "ZeroDivisionError"
  /\ UNCHANGED <<args, loopVars, offset, residual, memVars, mem_filled_so_far,
                 er_mem_indices, loss, upd, drawn, replay_tt, histVars, evalVars>>

Train_AGEM ==
  /\ args.imp_method = "A-GEM"
  /\ TrainHead
  /\ IF task = 0
     THEN UNCHANGED er_mem_indices /\ drawn' = NoDraw
     ELSE /\ er_mem_indices' \in AgemDraw(episodic_filled_counter, args.eps_mem_batch)
          /\ drawn' = [made |-> TRUE, filled |-> episodic_filled_counter,
                       k |-> args.eps_mem_batch]
  /\ loss' \in LossValues
  /\ ToUpdate
  /\ UNCHANGED <<mem_filled_so_far, replay_tt>>

Train_ER_Reservoir ==
  /\ args.imp_method = "ER-Reservoir"
  /\ TrainHead
  /\ mem_filled_so_far' = ReservoirFilled
  /\ er_mem_indices' \in ReservoirDraw(ReservoirFilled, args.eps_mem_batch)
  /\ drawn' = [made |-> TRUE, filled |-> ReservoirFilled, k |-> args.eps_mem_batch]
  /\ loss' \in LossValues
  /\ ToUpdate
  /\ UNCHANGED replay_tt

Train_ER_Ringbuffer ==
  /\ args.imp_method = "ER-Ringbuffer"
  /\ TrainHead
  /\ mem_filled_so_far' = RingbufferFilled
  /\ er_mem_indices' \in RingbufferDraw(RingbufferFilled, args.eps_mem_batch)
  /\ drawn' = [made |-> TRUE, filled |-> RingbufferFilled, k |-> args.eps_mem_batch]
  /\ loss' \in LossValues
  /\ ToUpdate
  /\ UNCHANGED replay_tt

Train_ER_SUBSPACE ==
  /\ args.imp_method = "ER-SUBSPACE"
  /\ TrainHead
  /\ IF task > 0
     THEN \E tt \in 0..(task - 1) :
            /\ replay_tt' = tt
            /\ er_mem_indices' = RegionIndices(tt)
     ELSE replay_tt' = -1 /\ UNCHANGED er_mem_indices
  /\ drawn' = NoDraw
  /\ loss' \in LossValues
  /\ ToUpdate
  /\ UNCHANGED mem_filled_so_far

Train_ER_SUBSPACE_GP ==
  /\ args.imp_method = "ER-SUBSPACE-GP"
  /\ TrainHead
  /\ IF task > 0
     THEN /\ replay_tt' \in 0..(task - 1)
          /\ mem_filled_so_far' = RingbufferFilled
          /\ er_mem_indices' \in RingbufferDraw(RingbufferFilled, args.eps_mem_batch)
          /\ drawn' = [made |-> TRUE, filled |-> RingbufferFilled,
                       k |-> args.eps_mem_batch]
     ELSE /\ replay_tt' = -1
          /\ drawn' = NoDraw
          /\ UNCHANGED <<mem_filled_so_far, er_mem_indices>>
  /\ loss' \in LossValues
  /\ ToUpdate

\* VAN, PI, EWC, M-EWC, MAS, RWALK, FTR_EXT, PNN, SUBSPACE-PROJ, PROJ-SUBSPACE-GP:
\* a training step on the batch alone; S-GEM has no branch and assigns no loss
Train_Other ==
  /\ args.imp_method \notin EpisodicMethods
  /\ TrainHead
  /\ IF args.imp_method = "S-GEM" THEN UNCHANGED loss ELSE loss' \in LossValues
  /\ pc' = "check"
  /\ drawn' = NoDraw
  /\ replay_tt' = -1
  /\ UNCHANGED <<mem_filled_so_far, er_mem_indices>>

(***************************************************************************)
(* The model runs of one iteration: the labels of the batch and the output *)
(* mask each sess.run of the method branch is fed with.                    *)
(***************************************************************************)
\* a mask zeroed and then set to 1 on task_labels[tt] for every tt of tts
MaskOfTasks(tts) == UNION {Range(task_labels[tt]) : tt \in tts}

\* the classes that occur in the label vectors of a batch
LabelsIn(ys) == UNION Range(ys)

\* the classes that occur in episodic_labels[idx]
MemLabels(idx) == UNION {episodic_labels[i] : i \in BagToSet(idx)}

\* logit_mask when the method branch is entered: set before the iterations
\* without --train-single-epoch, by the snapshot block of iteration 0 with it;
\* no branch that reads it on entry leaves another value behind
logit_mask == MaskOfTasks({task})

\* pnn_logit_mask: zeroed at the start of the task and set by the snapshot block
\* only, which runs with --train-single-epoch
pnn_logit_mask == IF args.train_single_epoch THEN MaskOfTasks({task}) ELSE {}

ModelRun(s, ls, m) == [step |-> s, labels |-> ls, mask |-> m]

\* the replay of the region of task replay_tt (ER-SUBSPACE, ER-SUBSPACE-GP)
RegionRun ==
  IF task > 0
  THEN {ModelRun("accum_er_subspace_grads", MemLabels(RegionIndices(replay_tt)),
                 MaskOfTasks({replay_tt}))}
  ELSE {}

\* the model runs of the iteration whose training step has just been made
ModelRuns ==
  LET cur == LabelsIn(BatchY)
      mem == MemLabels(er_mem_indices)
      m   == args.imp_method
  IN  CASE m \in {"VAN", "PI", "EWC", "M-EWC", "MAS", "RWALK", "FTR_EXT",
                  "SUBSPACE-PROJ"} ->
             {ModelRun("train", cur, logit_mask)}
        [] m = "PNN" ->
             {ModelRun("train", cur, pnn_logit_mask)}
        [] m = "S-GEM" -> {}
        [] m = "PROJ-SUBSPACE-GP" ->
             IF task = 0
             THEN {ModelRun("train", cur, logit_mask)}
             ELSE {ModelRun("store_ref_grads", cur, MaskOfTasks(0..(task - 1))),
                   ModelRun("train_gp", cur, MaskOfTasks(0..task))}
        [] m = "A-GEM" ->
             IF task = 0
             THEN {ModelRun("train_first_task", cur, MaskOfTasks({task}))}
             ELSE {ModelRun("store_ref_grads", mem, MaskOfTasks(0..(task - 1))),
                   ModelRun("train_subseq_tasks", cur, MaskOfTasks({task}))}
        [] m = "ER-Reservoir" ->
             {ModelRun("train", mem \cup cur,
                       MaskOfTasks({tt \in 0..task :
                                      Range(task_labels[tt]) \cap (mem \cup cur) # {}}))}
        [] m = "ER-Ringbuffer" ->
             {ModelRun("train", mem \cup cur, MaskOfTasks(0..task))}
        [] m = "ER-SUBSPACE" ->
             RegionRun \cup {ModelRun("train_er_subspace", cur, MaskOfTasks({task}))}
        [] m = "ER-SUBSPACE-GP" ->
             RegionRun \cup
             {ModelRun("store_ref_grads", IF task = 0 THEN cur ELSE mem \cup cur,
                       MaskOfTasks({task})),
              ModelRun("train_er_gp", cur, MaskOfTasks({task}))}

(***************************************************************************)
(* The episodic-memory writers (utils/utils.py, modelled from spec.md 3,   *)
(* 4.1 and 4.2) and their call sites in the training loop.                 *)
(***************************************************************************)
\* the class of an exemplar among the labels of the batch's task
fifo_class(lbl, batch_task_labels) ==
  CHOOSE c \in Range(batch_task_labels) : c \in lbl

\* class_offset[c]: the task's region starts at `filled`; inside it the classes
\* follow the order of the task's labels, `quota` slots each
class_offset(c, batch_task_labels, quota, filled) ==
  filled + quota * (CHOOSE i \in DOMAIN batch_task_labels : batch_task_labels[i] = c)

\* the slot an exemplar of class c is written to
fifo_slot(c, batch_task_labels, quota, cnt, filled) ==
  class_offset(c, batch_task_labels, quota, filled) + (cnt[c] % quota)

\* a count kept modulo the quota
fifo_count_Wrapped(cnt, c) == [cnt EXCEPT ![c] = (@ + 1) % args.mem_size]

\* count_cls[c] after a write for class c
fifo_count(cnt, c) == [cnt EXCEPT ![c] = @ + 1]

\* history: the number of FIFO writes made so far in this run
RECURSIVE WritesBelow(_, _)
WritesBelow(hist, c) ==
  IF c = 0 THEN 0 ELSE Len(hist[c - 1]) + WritesBelow(hist, c - 1)

FifoWrites(hist) == WritesBelow(hist, TOTAL_CLASSES)

\* the arguments update_fifo_buffer is called with
FifoArgTaskLabels == task_labels[task]

\* the replay batch size passed where the quota of a class is expected
FifoArgQuota_EpsMemBatch == args.eps_mem_batch

FifoArgQuota == args.mem_size

FifoArgFilled == episodic_filled_counter

\* update_fifo_buffer, one exemplar of the batch at a time
FifoWrite ==
  /\ pc = "update"
  /\ args.imp_method \in FifoMethods
  /\ LET im   == BatchX[upd + 1]
         lbl  == BatchY[upd + 1]
         c    == fifo_class(lbl, FifoArgTaskLabels)
         slot == fifo_slot(c, FifoArgTaskLabels, FifoArgQuota, count_cls, FifoArgFilled)
     IN  IF slot \in DOMAIN episodic_images
         THEN /\ episodic_images' = [episodic_images EXCEPT ![slot] = im]
              /\ episodic_labels' = [episodic_labels EXCEPT ![slot] = lbl]
              /\ count_cls' = fifo_count(count_cls, c)
              /\ fifo_hist' = [fifo_hist EXCEPT
                                 ![c] = Append(@, [img |-> im, slot |-> slot, task |-> task,
                                                   seq |-> FifoWrites(fifo_hist)])]
              /\ upd' = upd + 1
              /\ pc' = IF upd + 1 < Len(BatchX) THEN "update" ELSE "check"
         ELSE /\ pc' = "IndexError"
              /\ UNCHANGED <<episodic_images, episodic_labels, count_cls, fifo_hist, upd>>
  /\ UNCHANGED <<args, loopVars, offset, residual, episodic_filled_counter,
                 examples_seen_so_far, mem_filled_so_far, er_mem_indices, loss,
                 drawn, replay_tt, offered, evalVars>>

\* update_reservior(.., M, N): the slots the sample may go to; a value >= M
\* stands for the sample being discarded
reservoir_choices(M, N) == IF N < M THEN {N} ELSE 0..N

\* the count update_reservior is called with, and the caller's count after the call
\* the count incremented before the call instead of after it
ReservoirArgSeen_PostIncrement == examples_seen_so_far + 1

\* the filled count of the replay draw passed as the count of samples seen
ReservoirArgSeen_Filled == mem_filled_so_far

ReservoirArgSeen == examples_seen_so_far

\* a count of the stored samples only
SeenAfterOffer_OnlyStored(stored) ==
  IF stored THEN examples_seen_so_far + 1 ELSE examples_seen_so_far

SeenAfterOffer(stored) == examples_seen_so_far + 1

\* for er_x, er_y_ in zip(batch): update_reservior(..); examples_seen_so_far += 1
ReservoirOffer ==
  /\ pc = "update"
  /\ args.imp_method = "ER-Reservoir"
  /\ LET er_x  == BatchX[upd + 1]
         er_y_ == BatchY[upd + 1]
     IN  \E j \in reservoir_choices(episodic_mem_size, ReservoirArgSeen) :
           /\ IF j < episodic_mem_size
              THEN /\ episodic_images' = [episodic_images EXCEPT ![j] = er_x]
                   /\ episodic_labels' = [episodic_labels EXCEPT ![j] = er_y_]
              ELSE UNCHANGED <<episodic_images, episodic_labels>>
           /\ examples_seen_so_far' = SeenAfterOffer(j < episodic_mem_size)
           /\ offered' = Append(offered, [img |-> er_x, N |-> ReservoirArgSeen])
  /\ upd' = upd + 1
  /\ pc' = IF upd + 1 < Len(BatchX) THEN "update" ELSE "check"
  /\ UNCHANGED <<args, loopVars, offset, residual, count_cls, episodic_filled_counter,
                 mem_filled_so_far, er_mem_indices, loss, drawn, replay_tt, fifo_hist,
                 evalVars>>

(***************************************************************************)
(* The end of an iteration and of a task.                                  *)
(***************************************************************************)
\* print(.. loss) every 100 iterations; if math.isnan(loss): sys.exit(0)
CheckLoss ==
  /\ pc = "check"
  /\ IF loss = "unset"
     THEN pc' = "NameError" /\ UNCHANGED iters
     ELSE IF loss = "nan"
     THEN pc' = "exited" /\ UNCHANGED iters
     ELSE IF iters + 1 < num_iters
     THEN pc' = "train" /\ iters' = iters + 1
     ELSE pc' = "task_end" /\ UNCHANGED iters
  /\ UNCHANGED <<args, runid, task, task_labels, train_x, train_y, num_iters, offset,
                 residual, memVars, mem_filled_so_far, er_mem_indices, loss, upd,
                 drawn, replay_tt, histVars, evalVars>>

\* a counter left where it was
FilledAfterTask_Stale == episodic_filled_counter

\* a counter that advances by the quota of one class only
FilledAfterTask_OneClass == episodic_filled_counter + args.mem_size

\* episodic_filled_counter += args.mem_size * classes_per_task
FilledAfterTask == episodic_filled_counter + args.mem_size * classes_per_task

\* single-epoch mode appends the accuracies after the task to the snapshots of
\* its iterations; otherwise ftask is the accuracies after the task
FtaskAfterTask ==
  IF args.train_single_epoch
  THEN Append(ftask, test_task_sequence(task_labels, task))
  ELSE test_task_sequence(task_labels, task)

\* after the last iteration of a task: the counter, the evaluation, the next task
EndTask ==
  /\ pc = "task_end"
  /\ IF use_episodic_memory
     THEN episodic_filled_counter' = FilledAfterTask
     ELSE UNCHANGED episodic_filled_counter
  /\ IF task + 1 < model_num_tasks
     THEN task' = task + 1 /\ pc' = "task_start"
     ELSE task' = task /\ pc' = "run_end"
  /\ ftask' = FtaskAfterTask
  /\ evals' = Append(evals, FtaskAfterTask)
  /\ UNCHANGED <<args, runid, iters, task_labels, train_x, train_y, num_iters, offset,
                 residual, episodic_images, episodic_labels, count_cls,
                 examples_seen_so_far, mem_filled_so_far, er_mem_indices, loss, upd,
                 drawn, replay_tt, histVars, runs>>

Next ==
  \/ StartRun
  \/ StartTask
  \/ RaiseZeroDivision
  \/ Train_AGEM
  \/ Train_ER_Reservoir
  \/ Train_ER_Ringbuffer
  \/ Train_ER_SUBSPACE
  \/ Train_ER_SUBSPACE_GP
  \/ Train_Other
  \/ FifoWrite
  \/ ReservoirOffer
  \/ CheckLoss
  \/ EndTask
  \/ EndRun

Spec == Init /\ [][Next]_vars

(***************************************************************************)
(* The layout of the FIFO memory the claims speak of: task tt owns the     *)
(* slots [tt * quota * classes_per_task, (tt+1) * quota * classes_per_task)*)
(* and, inside them, its i-th class the quota slots from i * quota on.     *)
(***************************************************************************)
per_class_quota == args.mem_size

per_task_quota == per_class_quota * classes_per_task

RunClasses == UNION {Range(task_labels[tt]) : tt \in DOMAIN task_labels}

TaskOfClass(c) == CHOOSE tt \in DOMAIN task_labels : c \in Range(task_labels[tt])

IndexInTask(c) ==
  CHOOSE i \in DOMAIN task_labels[TaskOfClass(c)] : task_labels[TaskOfClass(c)][i] = c

RegionOfClass(c) == TaskOfClass(c) * per_task_quota + IndexInTask(c) * per_class_quota

TaskRegion(tt) == (tt * per_task_quota)..((tt + 1) * per_task_quota - 1)

\* C1 (FIFO slot rule): in every reachable state, the n-th sample (n counted
\* from 0) written for a class c by update_fifo_buffer in this run went to slot
\* class_offset[c] + (n mod per_class_quota), class_offset[c] being the start of
\* c's quota region, whatever was written for other classes in between.
C1_FifoSlotRule ==
  \A c \in DOMAIN fifo_hist :
    \A n \in 1..Len(fifo_hist[c]) :
      fifo_hist[c][n].slot = RegionOfClass(c) + ((n - 1) % per_class_quota)

\* a class written three times with a quota of two (the third write wraps to
\* the first slot), a write for another class lying between its writes
C1_Witness ==
  /\ per_class_quota = 2
  /\ \E c, d \in DOMAIN fifo_hist :
       /\ c # d
       /\ Len(fifo_hist[c]) >= 3
       /\ fifo_hist[c][3].slot = fifo_hist[c][1].slot
       /\ fifo_hist[c][2].slot = fifo_hist[c][1].slot + 1
       /\ \E m \in 1..Len(fifo_hist[d]) :
            /\ fifo_hist[c][1].seq < fifo_hist[d][m].seq
            /\ fifo_hist[d][m].seq < fifo_hist[c][3].seq

\* history: the writes for class c that targeted the j-th slot of its region
WritesToSlot(c, j) ==
  {n \in 1..Len(fifo_hist[c]) : (n - 1) % per_class_quota = j}

LastOf(ns) == CHOOSE n \in ns : \A k \in ns : k <= n

\* C2 (FIFO overwrite): under the FIFO methods, in every reachable state, slot j
\* of the region of class c holds image and label of the most recent sample of
\* class c whose per-class sequence number is congruent to j modulo the quota
\* (after quota+1 writes the first slot holds the (quota+1)-th sample), and a
\* slot no write has targeted still holds the zero image and the zero label.
C2_FifoOverwrite ==
  args.imp_method \in FifoMethods =>
    \A c \in RunClasses :
      \A j \in 0..(per_class_quota - 1) :
        LET slot == RegionOfClass(c) + j
            ns   == WritesToSlot(c, j)
        IN  IF ns = {}
            THEN episodic_images[slot] = 0 /\ episodic_labels[slot] = {}
            ELSE /\ episodic_images[slot] = fifo_hist[c][LastOf(ns)].img
                 /\ episodic_labels[slot] = {c}

\* quota+1 writes of one class, the last a sample other than the first: the
\* first slot of the region holds the last; another class's slot is unwritten
C2_Witness ==
  /\ args.imp_method \in FifoMethods
  /\ \E c, d \in RunClasses :
       /\ Len(fifo_hist[c]) = per_class_quota + 1
       /\ fifo_hist[c][per_class_quota + 1].img # fifo_hist[c][1].img
       /\ episodic_images[RegionOfClass(c)] = fifo_hist[c][per_class_quota + 1].img
       /\ fifo_hist[d] = << >>
       /\ episodic_images[RegionOfClass(d)] = 0

\* the capacity the claims speak of: mem_size * total_classes
capacity == args.mem_size * classes_per_task * model_num_tasks

\* the episodic memory is allocated from the start of the first run on
Allocated == use_episodic_memory /\ ~(pc = "run_start" /\ runid = 0)

\* C3 (capacity invariant): once the memory of a run is allocated, after any
\* sequence of FIFO or reservoir writes the image array and the label array have
\* exactly capacity = mem_size * total_classes slots, indexed 0..capacity-1; no
\* write lands outside [0, capacity) (none raises an IndexError).
C3_CapacityInvariant ==
  Allocated =>
    /\ DOMAIN episodic_images = 0..(capacity - 1)
    /\ DOMAIN episodic_labels = 0..(capacity - 1)
    /\ pc # "IndexError"
    /\ \A c \in DOMAIN fifo_hist :
         \A n \in 1..Len(fifo_hist[c]) :
           fifo_hist[c][n].slot \in 0..(capacity - 1)

\* the last slot of the memory has been written, by a write that wrapped around
C3_Witness ==
  /\ Allocated
  /\ \E c \in DOMAIN fifo_hist :
       /\ Len(fifo_hist[c]) > per_class_quota
       /\ fifo_hist[c][Len(fifo_hist[c])].slot = capacity - 1
       /\ episodic_images[capacity - 1] # 0

\* C4 (reservoir pre-fill): under ER-Reservoir, as long as no more than capacity
\* samples have been offered in this run, every offered sample is stored, the
\* i-th (from 0) in slot i, the count it was offered with; so after capacity
\* offers the memory holds the first capacity samples in arrival order.
C4_ReservoirPrefill ==
  (args.imp_method = "ER-Reservoir" /\ Allocated /\ Len(offered) <= capacity) =>
    \A i \in 0..(capacity - 1) :
      IF i < Len(offered)
      THEN /\ offered[i + 1].N = i
           /\ episodic_images[i] = offered[i + 1].img
           /\ episodic_labels[i] = OneHot(offered[i + 1].img)
      ELSE episodic_images[i] = 0 /\ episodic_labels[i] = {}

\* exactly capacity samples have been offered and fill the memory in order
C4_Witness ==
  /\ args.imp_method = "ER-Reservoir"
  /\ Len(offered) = capacity
  /\ examples_seen_so_far = capacity
  /\ \A i \in 0..(capacity - 1) : episodic_images[i] = offered[i + 1].img
  /\ \E i \in 0..(capacity - 1) : episodic_images[i] # episodic_images[0]

\* C5 (reservoir counter): under ER-Reservoir, update_reservior is called for the
\* i-th sample of the run (from 0) with the count i, the number of samples offered
\* before it; examples_seen_so_far is the number of samples offered so far in the
\* run, stored or not, and when the update of a batch is over the last
\* len(batch) offers are the samples of that batch.
C5_ReservoirCounter ==
  (args.imp_method = "ER-Reservoir" /\ Allocated) =>
    /\ examples_seen_so_far = Len(offered)
    /\ \A i \in 1..Len(offered) : offered[i].N = i - 1
    /\ pc = "check" =>
         /\ Len(offered) >= Len(BatchX)
         /\ \A k \in 1..Len(BatchX) :
              offered[Len(offered) - Len(BatchX) + k].img = BatchX[k]

\* after batches of two samples have filled the memory, one more sample has been
\* offered and discarded: the counter counts it all the same
C5_Witness ==
  /\ args.imp_method = "ER-Reservoir"
  /\ args.batch_size = 2
  /\ pc = "check"
  /\ examples_seen_so_far = capacity + 1
  /\ \A i \in 0..(capacity - 1) : episodic_images[i] # offered[capacity + 1].img

\* the offers of this run so far are pairwise distinct samples
DistinctOffers ==
  \A i, j \in 1..Len(offered) : i # j => offered[i].img # offered[j].img

\* C6, the state part: once capacity or more distinct samples have been offered,
\* the memory holds capacity distinct samples, each of them an offered one
C6_Holds ==
  (args.imp_method = "ER-Reservoir" /\ Len(offered) >= capacity /\ DistinctOffers) =>
    /\ \A i, j \in 0..(capacity - 1) : i # j => episodic_images[i] # episodic_images[j]
    /\ \A i \in 0..(capacity - 1) :
         /\ \E n \in 1..Len(offered) : episodic_images[i] = offered[n].img
         /\ episodic_labels[i] = OneHot(episodic_images[i])
    /\ Len(offered) = capacity =>
         \A i \in 0..(capacity - 1) : episodic_images[i] = offered[i + 1].img

\* C6, the step part: an offer made when examples_seen_so_far >= capacity either
\* leaves the memory as it is or overwrites one slot of [0, capacity) with the
\* offered sample
C6_Step ==
  (args.imp_method = "ER-Reservoir" /\ pc = "update" /\ offered' # offered
     /\ examples_seen_so_far >= capacity) =>
    \/ /\ episodic_images' = episodic_images
       /\ episodic_labels' = episodic_labels
    \/ \E j \in 0..(capacity - 1) :
         /\ episodic_images' = [episodic_images EXCEPT ![j] = BatchX[upd + 1]]
         /\ episodic_labels' = [episodic_labels EXCEPT ![j] = BatchY[upd + 1]]

\* C6 (reservoir post-fill): once examples_seen_so_far >= capacity, an offered
\* sample either overwrites exactly one slot in [0, capacity) or is discarded
\* leaving the memory unchanged; hence after N >= capacity distinct samples have
\* been offered the memory holds exactly capacity distinct samples, each one of
\* the N offered, and right after the capacity-th offer the first capacity
\* samples are all present.
C6_ReservoirPostfill == [](C6_Holds) /\ [][C6_Step]_vars

\* more distinct samples than the capacity have been offered and the last one
\* has replaced a sample of the memory
C6_Witness ==
  /\ args.imp_method = "ER-Reservoir"
  /\ DistinctOffers
  /\ Len(offered) = capacity + 1
  /\ \E i \in 0..(capacity - 1) : episodic_images[i] = offered[capacity + 1].img

\* the filled count the replay draw of the method is made with
FilledCount ==
  IF args.imp_method = "A-GEM" THEN episodic_filled_counter ELSE mem_filled_so_far

\* C7 (replay sampling): the index batch of every replay draw of A-GEM,
\* ER-Reservoir, ER-Ringbuffer and ER-SUBSPACE-GP, made with filled_count valid
\* slots and k = eps_mem_batch, has exactly min(filled_count, k) entries, all
\* distinct and all in [0, filled_count); when filled_count <= k it is the full
\* set {0..filled_count-1}.
C7_ReplaySampling ==
  drawn.made =>
    /\ args.imp_method \in {"A-GEM", "ER-Reservoir", "ER-Ringbuffer", "ER-SUBSPACE-GP"}
    /\ drawn.k = args.eps_mem_batch
    /\ pc \in {"update", "check"} => drawn.filled = FilledCount
    /\ BagCardinality(er_mem_indices) = Min(drawn.filled, drawn.k)
    /\ \A i \in BagToSet(er_mem_indices) : CopiesIn(i, er_mem_indices) = 1
    /\ BagToSet(er_mem_indices) \subseteq 0..(drawn.filled - 1)
    /\ drawn.filled <= drawn.k => BagToSet(er_mem_indices) = 0..(drawn.filled - 1)

\* a draw of two indices out of four filled slots
C7_Witness ==
  /\ drawn.made
  /\ pc = "update"
  /\ drawn.filled = 4
  /\ drawn.k = 2
  /\ BagToSet(er_mem_indices) = {1, 3}

\* C8, the state part: every FIFO write of the run was made during the task of
\* its class, at a slot of that task's region, from the same class base
C8_Holds ==
  \A c \in DOMAIN fifo_hist :
    \A n \in 1..Len(fifo_hist[c]) :
      /\ fifo_hist[c][n].task = TaskOfClass(c)
      /\ fifo_hist[c][n].slot \in TaskRegion(fifo_hist[c][n].task)
      /\ fifo_hist[c][n].slot - ((n - 1) % per_class_quota)
           = fifo_hist[c][1].slot

\* C8, the step part: a FIFO write made during task t leaves every slot outside
\* the region of task t as it is
C8_Step ==
  (pc = "update" /\ args.imp_method \in FifoMethods) =>
    \A i \in DOMAIN episodic_images :
      i \notin TaskRegion(task) =>
        /\ episodic_images'[i] = episodic_images[i]
        /\ episodic_labels'[i] = episodic_labels[i]

\* C8 (FIFO region isolation): the offset of a class is the same at every write
\* for it; every FIFO write made while training task t lands inside
\* [t*quota*classes_per_task, (t+1)*quota*classes_per_task), and modifies no
\* slot of the region of an earlier or later task.
C8_FifoRegionIsolation == [](C8_Holds) /\ [][C8_Step]_vars

\* a write of the second task has been made and the last write of a class of the
\* first task is still in its slot
C8_Witness ==
  /\ args.imp_method \in FifoMethods
  /\ \E c, d \in DOMAIN fifo_hist :
       /\ Len(fifo_hist[c]) > 0
       /\ Len(fifo_hist[d]) > 0
       /\ fifo_hist[c][1].task = 1
       /\ fifo_hist[d][1].task = 0
       /\ fifo_hist[c][1].slot \in TaskRegion(1)
       /\ episodic_images[fifo_hist[d][Len(fifo_hist[d])].slot]
            = fifo_hist[d][Len(fifo_hist[d])].img

\* C9, the write: one slot takes the image and the label of the exemplar, the
\* count of its class grows by one, the rest is as it was
C9_Step ==
  (pc = "update" /\ args.imp_method \in FifoMethods) =>
    LET im == train_x[offset + upd + 1]
        c  == ClassOf(im)
    IN  /\ pc' # "IndexError"
        /\ \E slot \in DOMAIN episodic_images :
             /\ episodic_images' = [episodic_images EXCEPT ![slot] = im]
             /\ episodic_labels' = [episodic_labels EXCEPT ![slot] = OneHot(im)]
        /\ count_cls' = [count_cls EXCEPT ![c] = @ + 1]
        /\ episodic_filled_counter' = episodic_filled_counter
        /\ examples_seen_so_far' = examples_seen_so_far

\* C9, the counts: between the start of a run and its end no count decreases
C9_Monotone ==
  (pc # "run_start" /\ use_episodic_memory) =>
    \A c \in DOMAIN count_cls : count_cls'[c] >= count_cls[c]

\* C9 (frame of a FIFO write): writing one exemplar of class c changes exactly
\* one buffer slot (its image and its label) and exactly one counter,
\* count_cls[c], which grows by one; every other slot, every other count,
\* episodic_filled_counter and examples_seen_so_far are unchanged, and
\* count_cls[c] never decreases within a run.
C9_FifoWriteFrame == [][C9_Step /\ C9_Monotone]_vars

\* a class has been written more often than its quota and its count says so
C9_Witness ==
  /\ args.imp_method \in FifoMethods
  /\ \E c \in DOMAIN fifo_hist :
       /\ Len(fifo_hist[c]) = per_class_quota + 1
       /\ count_cls[c] = per_class_quota + 1
       /\ \E d \in DOMAIN fifo_hist : d # c /\ Len(fifo_hist[d]) = 1 /\ count_cls[d] = 1

\* C10, the state part: a slot holds nothing, or an image with the label of
\* that image
C10_Holds ==
  use_episodic_memory =>
    \A i \in DOMAIN episodic_images :
      episodic_labels[i] =
        IF episodic_images[i] = 0 THEN {} ELSE OneHot(episodic_images[i])

\* C10, the step part: a slot that a FIFO or reservoir write changes takes both
\* its image and its label from the exemplar being written
C10_Step ==
  (pc = "update" /\ use_episodic_memory) =>
    \A i \in DOMAIN episodic_images :
      (episodic_images'[i] # episodic_images[i]
         \/ episodic_labels'[i] # episodic_labels[i]) =>
        /\ episodic_images'[i] = train_x[offset + upd + 1]
        /\ episodic_labels'[i] = train_y[offset + upd + 1]

\* C10 (image/label pairing): after any sequence of FIFO or reservoir writes,
\* the image and the label of every written slot come from the same exemplar,
\* the one that last wrote the slot; no write updates the image of a slot
\* without its label or the reverse.
C10_ImageLabelPairing == [](C10_Holds) /\ [][C10_Step]_vars

\* a sample of the full reservoir has been replaced by one of another class
C10_Witness ==
  /\ args.imp_method = "ER-Reservoir"
  /\ Len(offered) > capacity
  /\ \E i \in 0..(capacity - 1) :
       /\ episodic_images[i] = offered[Len(offered)].img
       /\ ClassOf(offered[i + 1].img) # ClassOf(episodic_images[i])
       /\ episodic_labels[i] = OneHot(offered[Len(offered)].img)

\* the first task of a run is about to be loaded
AtRunStart == pc = "task_start" /\ task = 0

\* C11 (per-run lifecycle): at the start of every run that uses episodic memory
\* the buffer images and labels are all zero, count_cls is zero for every class,
\* and episodic_filled_counter and examples_seen_so_far are 0: nothing written
\* in a run is visible in the next one.
C11_RunLifecycle ==
  (use_episodic_memory /\ AtRunStart) =>
    /\ DOMAIN episodic_images = 0..(capacity - 1)
    /\ DOMAIN episodic_labels = 0..(capacity - 1)
    /\ \A i \in 0..(capacity - 1) : episodic_images[i] = 0 /\ episodic_labels[i] = {}
    /\ \A c \in 0..(TOTAL_CLASSES - 1) : count_cls[c] = 0
    /\ episodic_filled_counter = 0
    /\ examples_seen_so_far = 0

\* the second run starts with an empty memory after a first run that replayed
\* from a filled one
C11_Witness ==
  /\ use_episodic_memory
  /\ AtRunStart
  /\ runid = 1
  /\ drawn.made /\ drawn.filled > 0
  /\ \A i \in 0..(capacity - 1) : episodic_images[i] = 0
  /\ episodic_filled_counter = 0
  /\ examples_seen_so_far = 0

\* C12 (non-finite loss is fatal): after a training iteration whose loss is NaN
\* or infinite the program terminates at once: the step that follows the loss
\* test is the exit, never a further iteration, the end of the task or anything
\* after it.
C12_NonFiniteFatal ==
  [][(pc = "check" /\ loss \in {"nan", "inf"}) => pc' = "exited"]_vars

\* history: the number of writes and offers made to the memory in this run
Writes == FifoWrites(fifo_hist) + Len(offered)

\* C13, the draw: the step that draws the replay indices and runs the training
\* step of iteration i leaves the memory as it is, no exemplar of batch i written
C13_Draw ==
  (pc = "train" /\ use_episodic_memory /\ pc' \in {"update", "check"}) =>
    /\ UNCHANGED <<episodic_images, episodic_labels, count_cls,
                   examples_seen_so_far, fifo_hist, offered>>
    /\ loss' \in LossValues
    /\ upd' = 0

\* C13, the update: the exemplars of batch i are written one by one after that,
\* with the replay indices and the loss of iteration i already fixed
C13_Update ==
  (pc = "update" /\ pc' # "IndexError") =>
    /\ UNCHANGED <<er_mem_indices, drawn, replay_tt, mem_filled_so_far, loss,
                   offset, residual, iters>>
    /\ upd' = upd + 1
    /\ Writes' = Writes + 1

\* C13, the positions: the loss test, and so the next iteration, comes when all
\* of batch i is written; the filled count of an ER-Reservoir draw counts none
\* of the offers of batch i
C13_Holds ==
  use_episodic_memory =>
    /\ pc = "update" => upd < Len(BatchX)
    /\ pc = "check" => upd = Len(BatchX)
    /\ (pc = "train" /\ iters > 0) => upd = Len(BatchX)
    /\ (args.imp_method = "ER-Reservoir" /\ pc \in {"update", "check"}) =>
         drawn.filled = Min(examples_seen_so_far - upd, capacity)

\* C13 (replay before update): in every replay branch and every iteration i the
\* replay indices are drawn and the training step is run before the memory is
\* updated with batch i, and the memory is updated with all of batch i before
\* iteration i+1 draws; the replay batch of iteration i holds nothing that
\* batch i put into the memory.
C13_ReplayBeforeUpdate == [](C13_Holds) /\ [][C13_Draw /\ C13_Update]_vars

\* ER-Reservoir, second iteration of a task: the draw was made over the samples
\* of the first batch only, and the second batch is now in the memory too
C13_Witness ==
  /\ args.imp_method = "ER-Reservoir"
  /\ iters = 1
  /\ pc = "check"
  /\ upd = Len(BatchX) /\ upd > 0
  /\ drawn.made
  /\ drawn.filled > 0
  /\ drawn.filled = examples_seen_so_far - upd
  /\ BagToSet(er_mem_indices) # {}

MaxEpochExamples == 6
MaxEpochBatch == 3

EpochArgs(b) ==
  [imp_method |-> "ER-Reservoir", train_single_epoch |-> TRUE,
   online_cross_val |-> FALSE, num_tasks |-> ArgNumTasks, num_runs |-> 1,
   train_iters |-> ArgTrainIters, eps_mem_batch |-> ArgEpsMemBatch,
   mem_size |-> 1, batch_size |-> b]

\* the first iteration of a task with n training examples and batch size b
EpochInit ==
  \E n \in 1..MaxEpochExamples, b \in 1..MaxEpochBatch :
    /\ args = EpochArgs(b)
    /\ train_x = [i \in 1..n |-> i]
    /\ train_y = [i \in 1..n |-> OneHot(i)]
    /\ num_iters = NumIters(n)
    /\ pc = IF NumIters(n) > 0 THEN "train" ELSE "task_end"
    /\ runid = 0
    /\ task = 0
    /\ iters = 0
    /\ task_labels = << >>
    /\ offset = 0
    /\ residual = 0
    /\ episodic_images = RunStartImages
    /\ episodic_labels = RunStartLabels
    /\ count_cls = RunStartCounts
    /\ episodic_filled_counter = 0
    /\ examples_seen_so_far = 0
    /\ mem_filled_so_far = 0
    /\ er_mem_indices = EmptyBag
    /\ loss = "unset"
    /\ upd = 0
    /\ drawn = NoDraw
    /\ replay_tt = -1
    /\ fifo_hist = [c \in 0..(TOTAL_CLASSES - 1) |-> << >>]
    /\ offered = << >>
    /\ ftask = << >>
    /\ evals = << >>
    /\ runs = << >>

EpochNext ==
  \/ Train_ER_Reservoir
  \/ ReservoirOffer
  \/ CheckLoss

EpochSpec == EpochInit /\ [][EpochNext]_vars

\* C15 (single-epoch coverage): with --train-single-epoch, for a task of
\* n >= 1 examples and a batch size b >= 1, num_iters is the ceiling of n / b and
\* the batch of iteration i is [i*b, i*b + residual) with 1 <= residual, inside
\* [0, n); the batches follow each other without gap or overlap, so that when
\* the task is over every example has been in exactly one batch, and under
\* ER-Reservoir has been offered to the reservoir exactly once.
C15_SingleEpochCoverage ==
  LET n == Len(train_x)
      b == args.batch_size
  IN  args.train_single_epoch =>
        /\ num_iters * b >= n /\ (num_iters - 1) * b < n
        /\ pc \in {"update", "check"} =>
             /\ offset = iters * b
             /\ residual >= 1
             /\ residual = Min(b, n - offset)
             /\ Len(BatchX) = residual
             /\ Len(offered) = offset + upd
        /\ pc = "check" => upd = residual
        /\ \A i \in 1..Len(offered) : i <= n /\ offered[i].img = train_x[i]
        /\ pc = "task_end" => Len(offered) = n /\ iters = num_iters - 1

\* five examples in batches of two: the last batch holds the one example left
C15_Witness ==
  /\ args.train_single_epoch
  /\ args.batch_size = 2
  /\ Len(train_x) = 5
  /\ pc = "task_end"
  /\ iters = 2
  /\ residual = 1
  /\ Len(offered) = 5
  /\ \A i \in 1..5 : offered[i].img = train_x[i]

\* the task labels of a run have been drawn
LabelsDrawn == ~(pc = "run_start" /\ runid = 0)

\* C16 (task partition): in every run there are exactly model.num_tasks task
\* label lists, each of exactly classes_per_task = TOTAL_CLASSES // num_tasks
\* distinct classes, pairwise disjoint, and their union is the label range of
\* the run; this holds in every run, whatever the shuffle.
C16_TaskPartition ==
  LabelsDrawn =>
    /\ DOMAIN task_labels = 0..(model_num_tasks - 1)
    /\ classes_per_task = TOTAL_CLASSES \div args.num_tasks
    /\ \A tt \in DOMAIN task_labels :
         /\ DOMAIN task_labels[tt] = 0..(classes_per_task - 1)
         /\ Cardinality(Range(task_labels[tt])) = classes_per_task
    /\ \A t1, t2 \in DOMAIN task_labels :
         t1 # t2 => Range(task_labels[t1]) \cap Range(task_labels[t2]) = {}
    /\ UNION {Range(task_labels[tt]) : tt \in DOMAIN task_labels}
         = IF args.online_cross_val
           THEN 0..(total_classes - 1)
           ELSE (K_FOR_CROSS_VAL * classes_per_task)
                  ..(K_FOR_CROSS_VAL * classes_per_task + total_classes - 1)

\* the second run has drawn its labels, the first task getting the two ends of
\* the label range
C16_Witness ==
  /\ runid = 1
  /\ pc = "task_start"
  /\ classes_per_task = 2
  /\ task_labels[0][0] = K_FOR_CROSS_VAL * classes_per_task + total_classes - 1
  /\ task_labels[0][1] = K_FOR_CROSS_VAL * classes_per_task

\* history: some FIFO write of this run went to slot i
Written(i) ==
  \E c \in DOMAIN fifo_hist :
    \E n \in 1..Len(fifo_hist[c]) : fifo_hist[c][n].slot = i

\* the iteration under way has replayed the slots of er_mem_indices
Replayed == drawn.made \/ replay_tt >= 0

\* C18 (the filled count counts only valid slots): at every replay draw of
\* A-GEM, ER-Ringbuffer and ER-SUBSPACE-GP and every region replay of
\* ER-SUBSPACE and ER-SUBSPACE-GP, every slot below episodic_filled_counter has
\* been written by some FIFO write, and no never-written slot is in the replay
\* batch.
C18_FilledSlotsWritten ==
  (args.imp_method \in FifoMethods /\ pc \in {"update", "check"}) =>
    /\ \A i \in 0..(episodic_filled_counter - 1) : Written(i)
    /\ Replayed => \A i \in BagToSet(er_mem_indices) : Written(i)

\* C19, the state part: while task t is trained the counter is
\* t * mem_size * classes_per_task, and the indices ER-Ringbuffer draws lie in
\* the regions of the tasks before t: none in task 0, never a slot of task t
C19_Holds ==
  args.imp_method = "ER-Ringbuffer" =>
    /\ pc \in {"train", "update", "check", "task_end"} =>
         episodic_filled_counter = task * args.mem_size * classes_per_task
    /\ pc \in {"update", "check"} =>
         /\ drawn.made
         /\ drawn.filled = task * args.mem_size * classes_per_task
         /\ BagToSet(er_mem_indices)
              \subseteq UNION {TaskRegion(tt) : tt \in 0..(task - 1)}
         /\ BagToSet(er_mem_indices) \cap TaskRegion(task) = {}
         /\ task = 0 => er_mem_indices = EmptyBag
         /\ \A c \in DOMAIN fifo_hist :
              \A n \in 1..Len(fifo_hist[c]) :
                fifo_hist[c][n].task = task =>
                  fifo_hist[c][n].slot \notin BagToSet(er_mem_indices)

\* C19, the step part: the counter changes only after the last iteration of a
\* task, or when a run starts
C19_Step ==
  (args.imp_method = "ER-Ringbuffer"
     /\ episodic_filled_counter' # episodic_filled_counter) =>
    pc \in {"task_end", "run_start"}

\* C19 (ring-buffer replay lags by one task): during every iteration of task t
\* episodic_filled_counter equals t * mem_size * classes_per_task, changing only
\* after the last iteration of a task; the ER-Ringbuffer replay batch is empty
\* throughout task 0, and during task t it is drawn from the regions of tasks
\* 0..t-1 only: what task t wrote is not replayed while task t is trained.
C19_RingbufferLag == [](C19_Holds) /\ [][C19_Step]_vars

\* the second task has written to its region and replays from the first's
C19_Witness ==
  /\ args.imp_method = "ER-Ringbuffer"
  /\ task = 1
  /\ pc = "check"
  /\ iters = 1
  /\ \E c \in DOMAIN fifo_hist :
       /\ Len(fifo_hist[c]) > 0
       /\ fifo_hist[c][1].task = 1
       /\ episodic_images[fifo_hist[c][1].slot] # 0
  /\ BagCardinality(er_mem_indices) = 2
  /\ BagToSet(er_mem_indices) \subseteq TaskRegion(0)

\* an ER-Reservoir draw has just been made, no sample of the batch offered yet
ReservoirJustDrawn ==
  args.imp_method = "ER-Reservoir" /\ pc = "update" /\ upd = 0

C21_RegionReplay ==
  (args.imp_method \in {"ER-SUBSPACE", "ER-SUBSPACE-GP"} /\ pc \in {"update", "check"}) =>
    IF task = 0
    THEN replay_tt = -1 /\ ~drawn.made
    ELSE /\ replay_tt \in 0..(task - 1)
         /\ LET region == RegionIndices(replay_tt)
                lo     == replay_tt * args.mem_size * classes_per_task
            IN  /\ BagToSet(region) = lo..(lo + args.mem_size * classes_per_task - 1)
                /\ BagCardinality(region) = args.mem_size * classes_per_task
                /\ BagToSet(region) \subseteq 0..(episodic_filled_counter - 1)
                /\ BagToSet(region) \subseteq 0..(capacity - 1)
                /\ args.imp_method = "ER-SUBSPACE" => er_mem_indices = region
                /\ \A i \in BagToSet(region) :
                     episodic_images[i] # 0 =>
                       /\ ClassOf(episodic_images[i]) \in Range(task_labels[replay_tt])
                       /\ episodic_labels[i] \subseteq Range(task_labels[replay_tt])

\* ER-SUBSPACE in the second task replays the four slots of the first task's
\* region, which hold samples of the first task
C21_Witness ==
  /\ args.imp_method = "ER-SUBSPACE"
  /\ args.mem_size = 2
  /\ task = 1
  /\ pc = "update"
  /\ replay_tt = 0
  /\ BagToSet(er_mem_indices) = 0..3
  /\ \E i \in 0..3 :
       episodic_images[i] # 0 /\ ClassOf(episodic_images[i]) \in Range(task_labels[0])

\* C22 (dispatch completeness): for every method of MODELS each training
\* iteration runs a method branch that assigns the loss: the loss print and the
\* NaN test are never reached with the loss unassigned.
C22_DispatchComplete ==
  /\ pc = "check" => loss \in LossValues
  /\ pc # "NameError"

\* v is what an evaluation during or after task t has to return
EvalVectorAt(v, t) ==
  /\ DOMAIN v = 0..(model_num_tasks - 1)
  /\ \A tt \in 0..(model_num_tasks - 1) :
       v[tt] = IF tt <= t THEN accuracy(tt) ELSE 0

\* C23 (evaluation only of seen tasks): every vector test_task_sequence has
\* returned during or after task t has model.num_tasks entries; the entry of
\* each task 0..t is the accuracy measured on that task and the entry of every
\* task after t is 0, no such task having been evaluated.
C23_EvalSeenTasks ==
  /\ (args.train_single_epoch /\ pc \in {"train", "update", "check", "task_end"}) =>
       \A k \in 1..Len(ftask) : EvalVectorAt(ftask[k], task)
  /\ \A t \in 1..Len(evals) :
       IF args.train_single_epoch
       THEN /\ Len(evals[t]) >= 1
            /\ \A k \in 1..Len(evals[t]) : EvalVectorAt(evals[t][k], t - 1)
       ELSE EvalVectorAt(evals[t], t - 1)

\* the first task of several has been evaluated during its training and after
\* it: its own accuracy, and 0 for the task to come
C23_Witness ==
  /\ args.train_single_epoch
  /\ model_num_tasks >= 2
  /\ pc = "task_start"
  /\ task = 1
  /\ Len(evals) = 1
  /\ Len(evals[1]) >= 2
  /\ evals[1][1][0] = accuracy(0) /\ evals[1][1][1] = 0
  /\ evals[1][Len(evals[1])][0] = accuracy(0) /\ evals[1][Len(evals[1])][1] = 0

\* the state right after the training step of an iteration: the memory is
\* still the one the replay batch was read from
JustTrained == pc \in {"update", "check"} /\ upd = 0

\* C24 (output mask covers the batch): at every model run of the training loop,
\* training step or gradient-store step, every class that occurs in the batch
\* fed to the model is set in the output mask fed with it, and the mask is set
\* only on classes of the tasks 0..task.
C24_MaskCoversBatch ==
  JustTrained =>
    \A r \in ModelRuns :
      /\ r.labels \subseteq r.mask
      /\ r.mask \subseteq MaskOfTasks(0..task)

\* C25 (fixed-iteration batches): without --train-single-epoch, for every task
\* with num_train_examples >= batch_size and every iteration, the offset
\* (iters * batch_size) mod (num_train_examples - batch_size) is defined and
\* the batch [offset, offset + batch_size) holds exactly batch_size examples,
\* all with indices in [0, num_train_examples).
C25_FixedBatches ==
  (~args.train_single_epoch /\ num_train_examples >= args.batch_size) =>
    /\ pc # "ZeroDivisionError"
    /\ pc \in {"update", "check"} =>
         /\ offset = PyMod(iters * args.batch_size,
                           num_train_examples - args.batch_size)
         /\ offset >= 0
         /\ offset + args.batch_size <= num_train_examples
         /\ Len(BatchX) = args.batch_size
         /\ Len(BatchY) = args.batch_size

(***************************************************************************)
(* The task labels of a run, in both modes of --online-cross-val and for   *)
(* every --num-tasks above K_FOR_CROSS_VAL up to the bound.                *)
(***************************************************************************)
MaxLabelTasks == 6

LabelArgs ==
  [imp_method : {"VAN"}, train_single_epoch : {TRUE}, online_cross_val : BOOLEAN,
   num_tasks : (K_FOR_CROSS_VAL + 1)..MaxLabelTasks, num_runs : {1},
   train_iters : {ArgTrainIters}, eps_mem_batch : {ArgEpsMemBatch},
   mem_size : {1}, batch_size : {MaxBatchSize}]

LabelInit ==
  /\ args \in LabelArgs
  /\ pc = "run_start"
  /\ runid = 0
  /\ task = 0
  /\ iters = 0
  /\ task_labels = << >>
  /\ train_x = << >>
  /\ train_y = << >>
  /\ num_iters = 0
  /\ offset = 0
  /\ residual = 0
  /\ episodic_images = << >>
  /\ episodic_labels = << >>
  /\ count_cls = << >>
  /\ episodic_filled_counter = 0
  /\ examples_seen_so_far = 0
  /\ mem_filled_so_far = 0
  /\ er_mem_indices = EmptyBag
  /\ loss = "unset"
  /\ upd = 0
  /\ drawn = NoDraw
  /\ replay_tt = -1
  /\ fifo_hist = [c \in 0..(TOTAL_CLASSES - 1) |-> << >>]
  /\ offered = << >>
  /\ ftask = << >>
  /\ evals = << >>
  /\ runs = << >>

\* the labels of the run are drawn and the first task is loaded
LabelNext ==
  \/ StartRun
  \/ StartTask

LabelSpec == LabelInit /\ [][LabelNext]_vars

\* the classes of all the tasks of the run
LabelsOfRun == UNION {Range(task_labels[tt]) : tt \in DOMAIN task_labels}

\* C26 (label ranges): with cpt = TOTAL_CLASSES // num_tasks and
\* K = K_FOR_CROSS_VAL < num_tasks, a run with --online-cross-val has K tasks
\* and every task label in [0, K*cpt); a run without it has num_tasks - K tasks
\* and every task label in [K*cpt, num_tasks*cpt); so every label is below
\* TOTAL_CLASSES and no class of the cross-validation range is used in a normal
\* run.
C26_LabelRanges ==
  (pc # "run_start" /\ K_FOR_CROSS_VAL < args.num_tasks) =>
    LET cpt == TOTAL_CLASSES \div args.num_tasks
        K   == K_FOR_CROSS_VAL
    IN  /\ DOMAIN task_labels =
             0..((IF args.online_cross_val THEN K ELSE args.num_tasks - K) - 1)
        /\ \A tt \in DOMAIN task_labels :
             /\ DOMAIN task_labels[tt] = 0..(cpt - 1)
             /\ \A i \in DOMAIN task_labels[tt] :
                  /\ task_labels[tt][i] < TOTAL_CLASSES
                  /\ IF args.online_cross_val
                     THEN task_labels[tt][i] \in 0..(K * cpt - 1)
                     ELSE task_labels[tt][i] \in (K * cpt)..(args.num_tasks * cpt - 1)
        /\ ~args.online_cross_val => LabelsOfRun \cap 0..(K * cpt - 1) = {}

\* a cross-validation run of three tasks over the classes 0..5, its first task
\* loaded
C26_Witness ==
  /\ args.online_cross_val
  /\ args.num_tasks = 5
  /\ pc = "train"
  /\ DOMAIN task_labels = 0..2
  /\ LabelsOfRun = 0..5

(***************************************************************************)
(* The executions in which every training loss is finite: each training    *)
(* step of the main specification, its loss neither NaN nor infinite.      *)
(***************************************************************************)
FiniteLoss == loss' \notin {"nan", "inf"}

FiniteNext ==
  \/ StartRun
  \/ StartTask
  \/ RaiseZeroDivision
  \/ Train_AGEM /\ FiniteLoss
  \/ Train_ER_Reservoir /\ FiniteLoss
  \/ Train_ER_Ringbuffer /\ FiniteLoss
  \/ Train_ER_SUBSPACE /\ FiniteLoss
  \/ Train_ER_SUBSPACE_GP /\ FiniteLoss
  \/ Train_Other /\ FiniteLoss
  \/ FifoWrite
  \/ ReservoirOffer
  \/ CheckLoss
  \/ EndTask
  \/ EndRun

FiniteSpec == Init /\ [][FiniteNext]_vars

\* e is the evaluation recorded for task t: the accuracies measured after the
\* task, in single-epoch mode behind the snapshots of its iterations
EvalOfTask(e, t) ==
  IF args.train_single_epoch
  THEN Len(e) >= 1 /\ EvalVectorAt(e[Len(e)], t)
  ELSE EvalVectorAt(e, t)

Stopped == pc \in {"exited", "NameError", "ZeroDivisionError"}

\* C27 (run to exhaustion): if every training loss is finite, train_task_sequence
\* never stops early; it runs, for each of num_runs runs and each task in the
\* order 0..num_tasks-1, exactly num_iters iterations, and returns exactly
\* num_runs run records, each holding exactly one evaluation per task, in task
\* order; no task is skipped, repeated or reordered.
C27_RunToExhaustion ==
  /\ ~Stopped
  /\ pc \in {"train", "update", "check"} => iters < num_iters
  /\ pc = "task_end" =>
       /\ iters = num_iters - 1
       /\ args.train_single_epoch => Len(ftask) = num_iters
  /\ pc \in {"task_start", "train", "update", "check", "task_end"} =>
       /\ task < model_num_tasks
       /\ Len(evals) = task
  /\ pc = "run_end" => Len(evals) = model_num_tasks
  /\ \A t \in 1..Len(evals) : EvalOfTask(evals[t], t - 1)
  /\ IF pc = "returned"
     THEN Len(runs) = args.num_runs
     ELSE Len(runs) = runid /\ runid < args.num_runs
  /\ \A r \in 1..Len(runs) :
       /\ Len(runs[r]) = model_num_tasks
       /\ \A t \in 1..model_num_tasks : EvalOfTask(runs[r][t], t - 1)

====
